---- MODULE Spec2Model ----
\* SystemTimeUTCTimeStampGW: the std::time::SystemTime adapter of the
\* UTCTimestampGateway capability (src/gateways/utc_timestamp/std_time_systemtime.rs).
\* The UTCTimestamp value type and its builder live in the attestify_kernel crate;
\* they are modelled here from the specification's data model (sections 3 and 4.1).
EXTENDS Integers, Sequences, FiniteSets, TLC

VARIABLES
    \* --- concurrent callers of now() on one shared gateway instance ---
    pc,            \* position of each caller inside now()
    reading,       \* what SystemTime::now() showed to the call (ns relative to the epoch)
    duration,      \* the local `duration` of now() (line 19)
    result,        \* the value now() returned to the caller
    clockReads,    \* number of clock reads made by the current call
    builds,        \* number of builder invocations made by the current call
    \* --- a single test thread holding one UTCTimestamp ---
    testResult,    \* the Result the test obtained (gateway.now() or a direct build)
    source,        \* how the test obtained it
    input,         \* the number handed to the producer
    first,         \* first value each accessor returned on the held instance
    last,          \* latest value each accessor returned on the held instance
    later,         \* result of the latest later now() call on the same gateway
    \* --- gateways obtained by new(), default() and clone() ---
    gateway,       \* the gateway values
    calls,         \* number of now() calls made through each gateway
    log            \* the two most recent calls (newest first)

vars == <<pc, reading, duration, result, clockReads, builds,
          testResult, source, input, first, last, later,
          gateway, calls, log>>

callerVars == <<pc, reading, duration, result, clockReads, builds>>
testVars == <<testResult, source, input, first, last, later>>
gatewayVars == <<gateway, calls, log>>

----------------------------------------------------------------------------
\* Bounds of the model

NumCallers == 2
\* Largest nanosecond count the UTCTimestamp storage represents (scaled to
\* TLC's integers; the real width is left open by the specification).
MaxNs == 2000000000
MaxCalls == 2

Callers == 1..NumCallers

\* Unit conversion constants
NANOS_PER_MILLI == 1000000
NANOS_PER_SEC == 1000000000
MILLIS_PER_SEC == 1000

\* Host clock readings, in nanoseconds relative to UNIX_EPOCH; negative is a
\* clock set before the epoch.
ClockValues ==
    {-1500000000, -1, 0, 999999, 1000000, 999999999, 1000000000, 1500000000,
     MaxNs, MaxNs + 1}

\* Numbers a test hands to the builder directly.
BuilderInputs == {t \in ClockValues : t >= 0} \cup {1, 1499999, 1500000, 1999999999}

----------------------------------------------------------------------------
\* Option and Result

None == [tag |-> "None"]
Some(v) == [tag |-> "Some", val |-> v]
Ok(v) == [ok |-> TRUE, val |-> v]
Err(e) == [ok |-> FALSE, err |-> e]
NoResult == [tag |-> "NoResult"]

\* Error::for_system(kind, message)
for_system(kind, message) == [audience |-> "System", kind |-> kind, message |-> message]

----------------------------------------------------------------------------
\* std::time: SystemTime::duration_since(UNIX_EPOCH) and Duration::as_nanos()

duration_since(t) ==
    IF t >= 0
    THEN Ok([secs |-> t \div NANOS_PER_SEC, nanos |-> t % NANOS_PER_SEC])
    ELSE Err("SystemTimeError")

as_nanos_millis(d) == (d.secs * MILLIS_PER_SEC + d.nanos \div NANOS_PER_MILLI) * NANOS_PER_MILLI

as_nanos(d) == d.secs * NANOS_PER_SEC + d.nanos

----------------------------------------------------------------------------
\* UTCTimestamp and its builder (attestify_kernel)

builder == [ns |-> None]

use_ns(b, n) == [b EXCEPT !.ns = Some(n)]

build_exclusive(b) ==
    IF b.ns = None
    THEN Err("BuilderError")
    ELSE IF b.ns.val >= MaxNs
         THEN Err("BuilderError")
         ELSE Ok([nanos_since_epoch |-> b.ns.val])

build(b) ==
    IF b.ns = None
    THEN Err("BuilderError")
    ELSE IF b.ns.val > MaxNs
         THEN Err("BuilderError")
         ELSE Ok([nanos_since_epoch |-> b.ns.val])

as_nano(ts) == ts.nanos_since_epoch

as_milli_nearest(ts) == (ts.nanos_since_epoch + NANOS_PER_MILLI \div 2) \div NANOS_PER_MILLI

as_milli(ts) == ts.nanos_since_epoch \div NANOS_PER_MILLI

as_sec(ts) == ts.nanos_since_epoch \div NANOS_PER_SEC

----------------------------------------------------------------------------
\* now(): the two map_err closures and the whole function

clock_map_err(e) ==
    for_system("GatewayError", <<"Failed to retrieve the SystemTime because of: ", e>>)

build_map_err_gateway(e) ==
    for_system("GatewayError", <<"Failed build the UTCTimestamp from the SystemTime: ", e>>)

build_map_err(e) ==
    for_system("ProcessingFailure", <<"Failed build the UTCTimestamp from the SystemTime: ", e>>)

\* lines 26-31: the builder chain on a duration that was read successfully
build_timestamp(d) ==
    LET b == build(use_ns(builder, as_nanos(d)))
    IN  IF b.ok THEN Ok(b.val) ELSE Err(build_map_err(b.err))

\* lines 18-32 as a function of the clock reading
now(t) ==
    LET r == duration_since(t)
    IN  IF ~r.ok THEN Err(clock_map_err(r.err)) ELSE build_timestamp(r.val)

----------------------------------------------------------------------------
\* The gateway type: a unit struct, #[derive(Clone, Default)]

SystemTimeUTCTimeStampGW == "SystemTimeUTCTimeStampGW"
new == SystemTimeUTCTimeStampGW
default == SystemTimeUTCTimeStampGW
clone(g) == g

GatewayNames == {"new", "default", "clone"}

----------------------------------------------------------------------------
Accessors == {"as_nano", "as_milli", "as_sec"}

InitCallers ==
    /\ pc = [c \in Callers |-> "idle"]
    /\ reading = [c \in Callers |-> None]
    /\ duration = [c \in Callers |-> None]
    /\ result = [c \in Callers |-> NoResult]
    /\ clockReads = [c \in Callers |-> 0]
    /\ builds = [c \in Callers |-> 0]

InitTest ==
    /\ testResult = NoResult
    /\ source = "none"
    /\ input = None
    /\ first = [a \in Accessors |-> None]
    /\ last = [a \in Accessors |-> None]
    /\ later = NoResult

InitGateways ==
    /\ gateway = [g \in GatewayNames |->
                    CASE g = "new" -> new
                      [] g = "default" -> default
                      [] g = "clone" -> clone(new)]
    /\ calls = [g \in GatewayNames |-> 0]
    /\ log = <<>>

Init == InitCallers /\ InitTest /\ InitGateways

----------------------------------------------------------------------------
\* Concurrent callers: now() step by step, so that calls interleave

\* line 18: a caller enters now(&self) on the shared gateway
Invoke(c) ==
    /\ pc[c] = "idle"
    /\ pc' = [pc EXCEPT ![c] = "clock"]
    /\ clockReads' = [clockReads EXCEPT ![c] = 0]
    /\ builds' = [builds EXCEPT ![c] = 0]
    /\ UNCHANGED <<reading, duration, result>>
    /\ UNCHANGED <<testVars, gatewayVars>>

\* A clock read that falls back to Duration::default() when the read fails.
ReadClockOrDefault(c) ==
    /\ pc[c] = "clock"
    /\ \E t \in ClockValues :
         LET r == duration_since(t)
         IN  /\ reading' = [reading EXCEPT ![c] = Some(t)]
             /\ clockReads' = [clockReads EXCEPT ![c] = @ + 1]
             /\ duration' = [duration EXCEPT ![c] =
                                Some(IF r.ok THEN r.val ELSE [secs |-> 0, nanos |-> 0])]
             /\ pc' = [pc EXCEPT ![c] = "build"]
             /\ UNCHANGED result
    /\ UNCHANGED builds
    /\ UNCHANGED <<testVars, gatewayVars>>

\* A clock read that tries the clock a second time when the first read fails.
ReadClockRetry(c) ==
    /\ pc[c] = "clock"
    /\ \E t1 \in ClockValues, t2 \in ClockValues :
         LET r1 == duration_since(t1)
             t == IF r1.ok THEN t1 ELSE t2
             r == duration_since(t)
         IN  /\ reading' = [reading EXCEPT ![c] = Some(t)]
             /\ clockReads' = [clockReads EXCEPT ![c] = IF r1.ok THEN @ + 1 ELSE @ + 2]
             /\ IF r.ok
                THEN /\ duration' = [duration EXCEPT ![c] = Some(r.val)]
                     /\ pc' = [pc EXCEPT ![c] = "build"]
                     /\ UNCHANGED result
                ELSE /\ result' = [result EXCEPT ![c] = Err(clock_map_err(r.err))]
                     /\ pc' = [pc EXCEPT ![c] = "returned"]
                     /\ UNCHANGED duration
    /\ UNCHANGED builds
    /\ UNCHANGED <<testVars, gatewayVars>>

\* lines 19-24: SystemTime::now().duration_since(UNIX_EPOCH).map_err(..)?
ReadClock(c) ==
    /\ pc[c] = "clock"
    /\ \E t \in ClockValues :
         LET r == duration_since(t)
         IN  /\ reading' = [reading EXCEPT ![c] = Some(t)]
             /\ clockReads' = [clockReads EXCEPT ![c] = @ + 1]
             /\ IF r.ok
                THEN /\ duration' = [duration EXCEPT ![c] = Some(r.val)]
                     /\ pc' = [pc EXCEPT ![c] = "build"]
                     /\ UNCHANGED result
                ELSE /\ result' = [result EXCEPT ![c] = Err(clock_map_err(r.err))]
                     /\ pc' = [pc EXCEPT ![c] = "returned"]
                     /\ UNCHANGED duration
    /\ UNCHANGED builds
    /\ UNCHANGED <<testVars, gatewayVars>>

\* A builder stage that clamps the reading into the representable range.
BuildClamped(c) ==
    /\ pc[c] = "build"
    /\ LET n == as_nanos(duration[c].val)
           b == build(use_ns(builder, IF n > MaxNs THEN MaxNs ELSE n))
       IN  result' = [result EXCEPT ![c] =
                        IF b.ok THEN Ok(b.val) ELSE Err(build_map_err(b.err))]
    /\ builds' = [builds EXCEPT ![c] = @ + 1]
    /\ pc' = [pc EXCEPT ![c] = "returned"]
    /\ UNCHANGED <<reading, duration, clockReads>>
    /\ UNCHANGED <<testVars, gatewayVars>>

\* A builder stage whose `duration` is one slot shared by all callers.
BuildShared(c) ==
    /\ pc[c] = "build"
    /\ \E d \in {x \in Callers : duration[x] # None} :
         result' = [result EXCEPT ![c] = build_timestamp(duration[d].val)]
    /\ builds' = [builds EXCEPT ![c] = @ + 1]
    /\ pc' = [pc EXCEPT ![c] = "returned"]
    /\ UNCHANGED <<reading, duration, clockReads>>
    /\ UNCHANGED <<testVars, gatewayVars>>

\* lines 26-31: UTCTimestamp::builder().use_ns(duration.as_nanos()).build().map_err(..)
Build(c) ==
    /\ pc[c] = "build"
    /\ result' = [result EXCEPT ![c] = build_timestamp(duration[c].val)]
    /\ builds' = [builds EXCEPT ![c] = @ + 1]
    /\ pc' = [pc EXCEPT ![c] = "returned"]
    /\ UNCHANGED <<reading, duration, clockReads>>
    /\ UNCHANGED <<testVars, gatewayVars>>

\* The caller consumes the returned value; the call's locals go out of scope.
Return(c) ==
    /\ pc[c] = "returned"
    /\ pc' = [pc EXCEPT ![c] = "idle"]
    /\ reading' = [reading EXCEPT ![c] = None]
    /\ duration' = [duration EXCEPT ![c] = None]
    /\ result' = [result EXCEPT ![c] = NoResult]
    /\ clockReads' = [clockReads EXCEPT ![c] = 0]
    /\ builds' = [builds EXCEPT ![c] = 0]
    /\ UNCHANGED <<testVars, gatewayVars>>

Next ==
    \/ \E c \in Callers : Invoke(c)
    \/ \E c \in Callers : ReadClock(c)
    \/ \E c \in Callers : Build(c)
    \/ \E c \in Callers : Return(c)

Spec == Init /\ [][Next]_vars

----------------------------------------------------------------------------
\* A test thread that obtains one UTCTimestamp and reads it

Holding == testResult # NoResult /\ testResult.ok
timestamp == testResult.val

\* let utc_timestamp = gateway.now(); let timestamp = is_ok!(utc_timestamp);
TestNow(t) ==
    /\ testResult = NoResult
    /\ testResult' = now(t)
    /\ source' = "now"
    /\ input' = Some(t)
    /\ UNCHANGED <<first, last, later>>
    /\ UNCHANGED <<callerVars, gatewayVars>>

\* UTCTimestamp::builder().use_ns(n).build(), called by a test directly
TestBuild(n) ==
    /\ testResult = NoResult
    /\ testResult' = build(use_ns(builder, n))
    /\ source' = "builder"
    /\ input' = Some(n)
    /\ UNCHANGED <<first, last, later>>
    /\ UNCHANGED <<callerVars, gatewayVars>>

\* An accessor call on the held instance; the instance is borrowed immutably.
Access(a, v) ==
    /\ Holding
    /\ first' = [first EXCEPT ![a] = IF @ = None THEN Some(v) ELSE @]
    /\ last' = [last EXCEPT ![a] = Some(v)]
    /\ UNCHANGED <<testResult, source, input, later>>
    /\ UNCHANGED <<callerVars, gatewayVars>>

AsNano == Holding /\ Access("as_nano", as_nano(timestamp))

AsMilli == Holding /\ Access("as_milli", as_milli(timestamp))

AsSec == Holding /\ Access("as_sec", as_sec(timestamp))

\* A later now() whose result lands in the instance the test already holds.
LaterNowInPlace(t) ==
    /\ Holding
    /\ source = "now"
    /\ later' = now(t)
    /\ testResult' = IF later'.ok THEN later' ELSE testResult
    /\ UNCHANGED <<source, input, first, last>>
    /\ UNCHANGED <<callerVars, gatewayVars>>

\* A later gateway.now() on the gateway that produced the held instance
LaterNow(t) ==
    /\ Holding
    /\ source = "now"
    /\ later' = now(t)
    /\ UNCHANGED <<testResult, source, input, first, last>>
    /\ UNCHANGED <<callerVars, gatewayVars>>

\* End of the test's scope
TestDrop ==
    /\ testResult # NoResult
    /\ testResult' = NoResult
    /\ source' = "none"
    /\ input' = None
    /\ first' = [a \in Accessors |-> None]
    /\ last' = [a \in Accessors |-> None]
    /\ later' = NoResult
    /\ UNCHANGED <<callerVars, gatewayVars>>

NextValue ==
    \/ \E t \in ClockValues : TestNow(t)
    \/ \E n \in BuilderInputs : TestBuild(n)
    \/ AsNano
    \/ AsMilli
    \/ AsSec
    \/ \E t \in ClockValues : LaterNow(t)
    \/ TestDrop

SpecValue == Init /\ [][NextValue]_vars

----------------------------------------------------------------------------
\* Sequential calls through gateways with different origins and histories

LogEntry(g, t, r) == [gw |-> g, reading |-> t, seq |-> calls[g] + 1, result |-> r]

\* A now() that keeps the first timestamp it produced and returns it again.
GatewayNowCached(g, t) ==
    /\ calls[g] < MaxCalls
    /\ LET mine == SelectSeq(log, LAMBDA e : e.gw = g)
           r == IF mine # <<>> THEN mine[1].result ELSE now(t)
       IN  log' = SubSeq(<<LogEntry(g, t, r)>> \o log, 1, IF log = <<>> THEN 1 ELSE 2)
    /\ calls' = [calls EXCEPT ![g] = @ + 1]
    /\ UNCHANGED gateway
    /\ UNCHANGED <<callerVars, testVars>>

\* gateway.now() on the gateway g, with the clock showing t; now takes &self
GatewayNow(g, t) ==
    /\ calls[g] < MaxCalls
    /\ log' = SubSeq(<<LogEntry(g, t, now(t))>> \o log, 1, IF log = <<>> THEN 1 ELSE 2)
    /\ calls' = [calls EXCEPT ![g] = @ + 1]
    /\ UNCHANGED gateway
    /\ UNCHANGED <<callerVars, testVars>>

NextGateway == \E g \in GatewayNames, t \in ClockValues : GatewayNow(g, t)

SpecGateway == Init /\ [][NextGateway]_vars

----------------------------------------------------------------------------
\* Properties of now() under concurrent callers (specification Spec)

Returned(c) == pc[c] = "returned"
Kind(c) == result[c].err.kind
Accepted(n) == build(use_ns(builder, n)).ok

\* C1: a clock reading N >= 0 that the builder accepts comes back as Ok(t) with
\* t.as_nano() = N, unscaled and untruncated; a reading of 1_500_000_000 gives
\* as_milli() = 1500 and as_sec() = 1.
C1_ReadingPreserved ==
    \A c \in Callers :
        (Returned(c) /\ reading[c].val >= 0 /\ Accepted(reading[c].val)) =>
            /\ result[c].ok
            /\ as_nano(result[c].val) = reading[c].val
            /\ (reading[c].val = 1500000000 =>
                    as_milli(result[c].val) = 1500 /\ as_sec(result[c].val) = 1)

C1_Witness ==
    \E c \in Callers :
        Returned(c) /\ reading[c] = Some(1500000000) /\ result[c].ok

\* C2: a clock before the epoch makes now() return Err of kind GatewayError:
\* never Ok, never a default or zero timestamp.
C2_BeforeEpochIsGatewayError ==
    \A c \in Callers :
        (reading[c] # None /\ reading[c].val < 0) =>
            /\ pc[c] = "returned"
            /\ ~result[c].ok
            /\ Kind(c) = "GatewayError"

C2_Witness ==
    \E c \in Callers : Returned(c) /\ reading[c] = Some(-1) /\ ~result[c].ok

\* C3: a reading the builder rejects makes now() return Err of kind
\* ProcessingFailure; no timestamp (wrapped, clamped or truncated) is produced.
C3_RejectedIsProcessingFailure ==
    \A c \in Callers :
        (Returned(c) /\ reading[c].val >= 0 /\ ~Accepted(reading[c].val)) =>
            /\ ~result[c].ok
            /\ Kind(c) = "ProcessingFailure"

C3_Witness ==
    \E c \in Callers : Returned(c) /\ reading[c] = Some(MaxNs + 1) /\ ~result[c].ok

\* C5: every finished call has exactly one of three outcomes, fixed by the first
\* failing stage: GatewayError iff the clock read failed (builder not invoked),
\* ProcessingFailure iff the read succeeded and the builder rejected, Ok iff
\* both stages succeeded.
C5_ThreeOutcomes ==
    \A c \in Callers :
        Returned(c) =>
            LET readFailed == reading[c].val < 0
                rejected == ~readFailed /\ ~Accepted(reading[c].val)
            IN  /\ (~result[c].ok /\ Kind(c) = "GatewayError") <=> readFailed
                /\ (~result[c].ok /\ Kind(c) = "ProcessingFailure") <=> rejected
                /\ result[c].ok <=> (~readFailed /\ ~rejected)
                /\ ~result[c].ok => Kind(c) \in {"GatewayError", "ProcessingFailure"}
                /\ builds[c] = IF readFailed THEN 0 ELSE 1

C5_Witness ==
    \E c, d \in Callers :
        /\ Returned(c) /\ ~result[c].ok /\ Kind(c) = "GatewayError" /\ builds[c] = 0
        /\ Returned(d) /\ ~result[d].ok /\ Kind(d) = "ProcessingFailure" /\ builds[d] = 1

\* C6: under any interleaving of concurrent calls on the same gateway, a step of
\* one call leaves every other call's reading, duration and result alone, and a
\* call that returns returns the outcome of the reading it obtained itself.
C6_CallsIndependent ==
    [][\A c \in Callers :
          /\ (pc'[c] = pc[c]) =>
                /\ reading'[c] = reading[c]
                /\ duration'[c] = duration[c]
                /\ result'[c] = result[c]
          /\ (pc[c] # "returned" /\ pc'[c] = "returned") =>
                result'[c] = now(reading'[c].val)]_vars

C6_Witness ==
    \E c, d \in Callers :
        /\ c # d
        /\ Returned(c) /\ Returned(d)
        /\ reading[c] # reading[d]
        /\ result[c].ok /\ result[d].ok
        /\ result[c].val # result[d].val

\* C7: a call reads the clock exactly once: no retry after a failed read, and
\* no second read when the builder fails.
C7_SingleClockRead ==
    \A c \in Callers :
        /\ clockReads[c] <= 1
        /\ pc[c] \in {"build", "returned"} => clockReads[c] = 1
        /\ (Returned(c) /\ ~result[c].ok) => (clockReads[c] = 1 /\ builds[c] <= 1)

C7_Witness ==
    \E c, d \in Callers :
        /\ Returned(c) /\ ~result[c].ok /\ Kind(c) = "GatewayError" /\ clockReads[c] = 1
        /\ Returned(d) /\ ~result[d].ok /\ Kind(d) = "ProcessingFailure" /\ clockReads[d] = 1

----------------------------------------------------------------------------
\* Properties of the UTCTimestamp value (specification SpecValue)

Value(a, ts) ==
    CASE a = "as_nano" -> as_nano(ts)
      [] a = "as_milli" -> as_milli(ts)
      [] a = "as_sec" -> as_sec(ts)

\* C4: every timestamp returned by now() or built directly satisfies the
\* truncation-consistency law: as_milli() and as_sec() are floors, not roundings.
C4_TruncationLaw ==
    Holding =>
        LET nanos == as_nano(timestamp)
            millis == as_milli(timestamp)
            secs == as_sec(timestamp)
        IN  /\ millis * NANOS_PER_MILLI <= nanos
            /\ nanos < (millis + 1) * NANOS_PER_MILLI
            /\ secs * MILLIS_PER_SEC <= millis
            /\ millis < (secs + 1) * MILLIS_PER_SEC
            /\ secs <= nanos \div NANOS_PER_SEC
            /\ nanos \div NANOS_PER_SEC < secs + 1

C4_Witness ==
    /\ Holding
    /\ source = "now"
    /\ as_nano(timestamp) = 999999999
    /\ last["as_milli"] = Some(999)
    /\ last["as_sec"] = Some(0)

\* C8: for every N in the representable range, builder().use_ns(N).build()
\* succeeds and the instance's as_nano() is N.
C8_BuilderRoundTrip ==
    (source = "builder" /\ input.val <= MaxNs) =>
        /\ testResult.ok
        /\ as_nano(testResult.val) = input.val

C8_Witness ==
    /\ source = "builder"
    /\ input = Some(MaxNs)
    /\ Holding
    /\ last["as_nano"] = Some(MaxNs)

----------------------------------------------------------------------------
\* Properties of the gateway value (specification SpecGateway)

\* C10: now() leaves the gateway unchanged and the gateway carries no state:
\* whatever calls came before, and whether the gateway came from new(),
\* default() or clone(), equal clock readings give equal outcomes.
C10_Stateless ==
    /\ \A g \in GatewayNames : gateway[g] = SystemTimeUTCTimeStampGW
    /\ Len(log) = 2 =>
          (log[1].reading = log[2].reading => log[1].result = log[2].result)

C10_Witness ==
    /\ Len(log) = 2
    /\ log[1].reading = log[2].reading
    /\ log[1].gw # log[2].gw
    /\ log[1].seq # log[2].seq
    /\ \A g \in GatewayNames : calls[g] > 0

====
